---- MODULE Spec2Model ----
(***************************************************************************)
(* The HomeThread page of wren-ui (src/wren-ui/src/apollo/client/graphql/  *)
(* home.ts, lines 272-444): one React component that shows a conversation  *)
(* (thread), creates responses, and drives three pollers.                  *)
(*                                                                         *)
(* How the hooks are read.                                                 *)
(*  - useThreadQuery keeps one result per `threadId`; `threadCache[t]` is  *)
(*    the THREAD result stored for variables {threadId: t}.  `data` is the  *)
(*    entry of the current `threadId`; updateThreadQuery rewrites the entry *)
(*    of the CURRENT variables of the query, whoever calls it.  With        *)
(*    fetchPolicy cache-and-network every activation also asks the backend; *)
(*    a newer activation supersedes the request of an older one.            *)
(*  - a lazy query with pollInterval is a poller: calling it (execute)     *)
(*    sets its variables, fetches at once and (re)starts the interval;      *)
(*    stopPolling() clears the interval only, a fetch already issued still  *)
(*    completes and is delivered to onCompleted; `data` is undefined while  *)
(*    the first result for new variables is awaited.                        *)
(*  - an event handler, the render that follows it and the effects whose    *)
(*    dependencies changed form one step.                                   *)
(* A fetch in flight is answered with what the backend holds when the       *)
(* answer arrives.  A recommendation fetch and its answer are one step.     *)
(* showRecommendedQuestions and the Prompt's open/closed state are display  *)
(* state and are left out.                                                  *)
(***************************************************************************)
EXTENDS Integers, Sequences, FiniteSets, TLC

\* number of times a candidate is accepted (onSelect invocations)
MaxSelect == 1

\* `Number(params?.id) || null`: 0 stands for null / no id
Null == 0
Threads == {1, 2}

NoResponse == [id |-> Null, status |-> "none", detail |-> ""]
NoThread == [id |-> Null, responses |-> << >>]
NoQuery == [variables |-> Null, polling |-> FALSE, data |-> NoResponse]
NoRecQuery == [variables |-> Null, polling |-> FALSE, data |-> "none"]

VARIABLES
  threadId,        \* the active conversation id (route parameter), or Null
  threadCache,     \* useThreadQuery: per threadId, [loaded, responses]
  threadFetch,     \* the thread whose THREAD network request is in flight, or Null
  threadResponseResult,   \* the response poller: [variables, polling, data]
  responseFetches, \* response ids with a THREAD_RESPONSE fetch in flight
  threadRecommendationQuestionsResult, \* the recommendation poller
  askPolling,      \* the asking-task poller of useAskPrompt is running
  sel,             \* the onSelect invocations: [pc, thread, response]
  backend,         \* backend: per thread the sequence of its responses
  backendRec,      \* backend: per thread the recommendation task status
  askingTask       \* backend: the status of the asking task last created

vars == << threadId, threadCache, threadFetch, threadResponseResult,
           responseFetches, threadRecommendationQuestionsResult,
           askPolling, sel, backend, backendRec, askingTask >>

----------------------------------------------------------------------------
\* useAskPrompt helpers (the hook file is not part of the sources at hand)

getIsFinished(status) == status \in {"finished", "failed", "stopped"}

isRecommendedFinished(status) == status \in {"finished", "failed"}

----------------------------------------------------------------------------
\* The backend (external collaborator)

Range(s) == {s[i] : i \in 1..Len(s)}

BackendResponses == UNION {Range(backend[t]) : t \in Threads}

BackendResponse(id) == CHOOSE r \in BackendResponses : r.id = id

Owner(id) == CHOOSE t \in Threads : \E r \in Range(backend[t]) : r.id = id

NextId == Cardinality(BackendResponses) + 1

Successors(status) ==
  CASE status = "pending" -> {"generating", "finished", "failed"}
    [] status = "generating" -> {"finished", "failed"}
    [] OTHER -> {}

Detail(status) == IF status = "finished" THEN "SELECT 1" ELSE ""

\* every thread is created with its first response (createThread)
InitialBackend ==
  << << [id |-> 1, status |-> "pending", detail |-> ""] >>,
     << [id |-> 2, status |-> "finished", detail |-> "SELECT 1"] >> >>

----------------------------------------------------------------------------
\* The client state as one record, so that a handler and the effects that
\* follow it compose

Cur == [threadId |-> threadId, cache |-> threadCache, threadFetch |-> threadFetch,
        respQ |-> threadResponseResult, respFetches |-> responseFetches,
        recQ |-> threadRecommendationQuestionsResult, askPolling |-> askPolling]

Commit(c) ==
  \E n \in {c} :
    /\ threadId' = n.threadId
    /\ threadCache' = n.cache
    /\ threadFetch' = n.threadFetch
    /\ threadResponseResult' = n.respQ
    /\ responseFetches' = n.respFetches
    /\ threadRecommendationQuestionsResult' = n.recQ
    /\ askPolling' = n.askPolling

\* const thread = useMemo(() => data?.thread || null, [data])
thread(c) ==
  IF c.threadId = Null \/ ~c.cache[c.threadId].loaded
  THEN NoThread
  ELSE [id |-> c.threadId, responses |-> c.cache[c.threadId].responses]

threadResponse(c) == c.respQ.data

isFinished(c) == getIsFinished(threadResponse(c).status)

recommendedQuestions(c) == c.recQ.data

\* mutant: stopPolling() leaves the interval running
stopPolling_Noop(q) == q

\* stopPolling() of a query result
stopPolling(q) == [q EXCEPT !.polling = FALSE]

\* calling a lazy query: new variables, polling on; the data of other
\* variables is not shown
execute(q, none, v) ==
  [variables |-> v, polling |-> TRUE,
   data |-> IF q.variables = v THEN q.data ELSE none]

fetchThreadResponse(c, responseId) ==
  [c EXCEPT !.respQ = execute(@, NoResponse, responseId),
            !.respFetches = @ \cup {responseId}]

\* mutant: a terminal status already shown for t blocks the restart
fetchThreadRecommendationQuestions_Blocked(c, t) ==
  IF c.recQ.variables = t /\ isRecommendedFinished(c.recQ.data)
  THEN c
  ELSE [c EXCEPT !.recQ = execute(@, "none", t)]

fetchThreadRecommendationQuestions(c, t) ==
  [c EXCEPT !.recQ = execute(@, "none", t)]

\* updateThreadQuery(fn): rewrites the responses of the query's current
\* variables; with nothing loaded `prev.thread` is undefined and fn throws
CanUpdate(c) == thread(c) # NoThread

updateThreadQuery(c, responses) ==
  [c EXCEPT !.cache[c.threadId].responses = responses]

\* mutant: the new response is put in front
AppendResponse_Front(responses, nextResponse) == << nextResponse >> \o responses

\* responses: [...prev.thread.responses, nextResponse]
AppendResponse(responses, nextResponse) == Append(responses, nextResponse)

\* mutant: the fetched response replaces the first entry, whatever its id
MergeResponse_ByPosition(responses, nextResponse) ==
  [i \in 1..Len(responses) |-> IF i = 1 THEN nextResponse ELSE responses[i]]

\* responses: prev.thread.responses.map((response) =>
\*   response.id === nextResponse.id ? nextResponse : response)

MergeResponse(responses, nextResponse) ==
  [i \in 1..Len(responses) |->
     IF responses[i].id = nextResponse.id THEN nextResponse ELSE responses[i]]

\* (thread?.responses || []).find((response) => !getIsFinished(response.status))
UnfinishedIndex(responses) ==
  LET open == {i \in 1..Len(responses) : ~getIsFinished(responses[i].status)}
  IN IF open = {} THEN 0 ELSE CHOOSE i \in open : \A j \in open : i <= j

\* mutant: the guard also marks every entry that is not terminal `stopped`
GuardEffect_Terminalize(c) ==
  LET s == [c EXCEPT !.askPolling = FALSE,
                     !.respQ = stopPolling(@),
                     !.recQ = stopPolling(@),
                     !.cache = [t \in Threads |->
                        [loaded |-> @[t].loaded,
                         responses |-> [k \in 1..Len(@[t].responses) |->
                            IF getIsFinished(@[t].responses[k].status)
                            THEN @[t].responses[k]
                            ELSE [@[t].responses[k] EXCEPT !.status = "stopped"]]]]]
  IN IF c.threadId # Null
     THEN fetchThreadRecommendationQuestions(s, c.threadId)
     ELSE s

\* mutant: the guard stops the pollers and starts none
GuardEffect_StopOnly(c) ==
  [c EXCEPT !.askPolling = FALSE,
            !.respQ = stopPolling(@),
            !.recQ = stopPolling(@)]

\* useEffect(..., [threadId]): stop all requests when change thread
GuardEffect(c) ==
  LET s == [c EXCEPT !.askPolling = FALSE,
                     !.respQ = stopPolling(@),
                     !.recQ = stopPolling(@)]
  IN IF c.threadId # Null
     THEN fetchThreadRecommendationQuestions(s, c.threadId)
     ELSE s

\* useEffect(..., [thread])
ThreadEffect(c) ==
  LET rs == thread(c).responses
      u == UnfinishedIndex(rs)
  IN IF u # 0 THEN fetchThreadResponse(c, rs[u].id) ELSE c

\* mutant: a terminal response stops the recommendation poller too
IsFinishedEffect_Both(c) == [c EXCEPT !.respQ = stopPolling(@), !.recQ = stopPolling(@)]

\* useEffect(..., [isFinished])
IsFinishedEffect(c) == [c EXCEPT !.respQ = stopPolling(@)]

\* useEffect(..., [recommendedQuestions])
RecommendedEffect(c) == [c EXCEPT !.recQ = stopPolling(@)]

\* One render after a state change, then the effects whose dependencies
\* differ from the previous render, in the order they are declared
Effects(old, c) ==
  LET c1 == IF c.threadId # old.threadId THEN GuardEffect(c) ELSE c
      c2 == IF thread(c) # thread(old) THEN ThreadEffect(c1) ELSE c1
      c3 == IF isFinished(c) /\ ~isFinished(old) THEN IsFinishedEffect(c2) ELSE c2
      c4 == IF /\ recommendedQuestions(c) # recommendedQuestions(old)
              /\ isRecommendedFinished(recommendedQuestions(c))
            THEN RecommendedEffect(c3) ELSE c3
  IN c4

----------------------------------------------------------------------------
Init ==
  /\ threadId = Null
  /\ threadCache = [t \in Threads |-> [loaded |-> FALSE, responses |-> << >>]]
  /\ threadFetch = Null
  /\ threadResponseResult = NoQuery
  /\ responseFetches = {}
  /\ threadRecommendationQuestionsResult = NoRecQuery
  /\ askPolling = FALSE
  /\ sel = [i \in 1..MaxSelect |-> [pc |-> "idle", thread |-> Null, response |-> Null]]
  /\ backend = InitialBackend
  /\ backendRec = [t \in Threads |-> "not_started"]
  /\ askingTask = "none"

\* the page is opened when the backend holds recommendation tasks of earlier
\* visits, in any status
InitAnyRecommendation ==
  /\ threadId = Null
  /\ threadCache = [t \in Threads |-> [loaded |-> FALSE, responses |-> << >>]]
  /\ threadFetch = Null
  /\ threadResponseResult = NoQuery
  /\ responseFetches = {}
  /\ threadRecommendationQuestionsResult = NoRecQuery
  /\ askPolling = FALSE
  /\ sel = [i \in 1..MaxSelect |-> [pc |-> "idle", thread |-> Null, response |-> Null]]
  /\ backend = InitialBackend
  /\ backendRec \in [Threads -> {"not_started", "generating", "finished", "failed"}]
  /\ askingTask = "none"

\* mutant: the change of conversation also cancels the remote asking task
SwitchThread_Cancels(t) ==
  /\ t # threadId
  /\ LET c == [Cur EXCEPT !.threadId = t, !.threadFetch = t]
     IN Commit(Effects(Cur, c))
  /\ askingTask' = IF askingTask = "running" THEN "stopped" ELSE askingTask
  /\ UNCHANGED << sel, backend, backendRec >>

\* the route parameter changes: threadId changes, useThreadQuery follows it
SwitchThread(t) ==
  /\ t # threadId
  /\ LET c == [Cur EXCEPT !.threadId = t, !.threadFetch = t]
     IN Commit(Effects(Cur, c))
  /\ UNCHANGED << askingTask, sel, backend, backendRec >>

\* the THREAD network result arrives
ThreadQueryCompleted ==
  /\ threadFetch # Null
  /\ LET c == [Cur EXCEPT !.cache[threadFetch] =
                             [loaded |-> TRUE, responses |-> backend[threadFetch]],
                          !.threadFetch = Null]
     IN Commit(Effects(Cur, c))
  /\ UNCHANGED << askingTask, sel, backend, backendRec >>

\* the Prompt submits a question: the asking task is created and polled
AskSubmit ==
  /\ ~askPolling
  /\ askPolling' = TRUE
  /\ askingTask' = "running"
  /\ UNCHANGED << threadId, threadCache, threadFetch, threadResponseResult,
                  responseFetches, threadRecommendationQuestionsResult,
                  sel, backend, backendRec >>

\* the asking-task poller fetches a terminal status and stops
AskingTaskCompleted ==
  /\ askPolling
  /\ getIsFinished(askingTask)
  /\ askPolling' = FALSE
  /\ UNCHANGED << askingTask, threadId, threadCache, threadFetch, threadResponseResult,
                  responseFetches, threadRecommendationQuestionsResult,
                  sel, backend, backendRec >>

\* the Prompt's stop: cancelAskingTask is called and the poller stopped
AskCancel ==
  /\ askPolling
  /\ askPolling' = FALSE
  /\ askingTask' = IF askingTask = "running" THEN "stopped" ELSE askingTask
  /\ UNCHANGED << threadId, threadCache, threadFetch, threadResponseResult,
                  responseFetches, threadRecommendationQuestionsResult,
                  sel, backend, backendRec >>

\* the backend finishes the asking task
BackendAskAdvance(s) ==
  /\ askingTask = "running"
  /\ askingTask' = s
  /\ UNCHANGED << threadId, threadCache, threadFetch, threadResponseResult,
                  responseFetches, threadRecommendationQuestionsResult,
                  askPolling, sel, backend, backendRec >>

Idle(i) == sel[i].pc = "idle" /\ \A j \in 1..(i - 1) : sel[j].pc # "idle"

\* onSelect up to the first await; the backend creates the response
SelectStart(i) ==
  /\ Idle(i)
  /\ thread(Cur) # NoThread
  /\ askPolling' = FALSE
  /\ backend' = [backend EXCEPT ![threadId] =
                   Append(@, [id |-> NextId, status |-> "pending", detail |-> ""])]
  /\ sel' = [sel EXCEPT ![i] = [pc |-> "createThreadResponse",
                                thread |-> threadId, response |-> NextId]]
  /\ UNCHANGED << askingTask, threadId, threadCache, threadFetch, threadResponseResult,
                  responseFetches, threadRecommendationQuestionsResult,
                  backendRec >>

\* mutant: the rejected acceptance still fires the generate trigger
SelectFailed_Generates(i) ==
  /\ Idle(i)
  /\ threadId # Null
  /\ askPolling' = FALSE
  /\ sel' = [sel EXCEPT ![i] = [pc |-> "caught", thread |-> threadId, response |-> Null]]
  /\ backendRec' = [backendRec EXCEPT ![threadId] = "generating"]
  /\ UNCHANGED << askingTask, threadId, threadCache, threadFetch, threadResponseResult,
                  responseFetches, threadRecommendationQuestionsResult,
                  backend >>

\* onSelect whose createThreadResponse call is rejected (or `thread` is null
\* and `thread.id` throws): catch, nothing else
SelectFailed(i) ==
  /\ Idle(i)
  /\ askPolling' = FALSE
  /\ sel' = [sel EXCEPT ![i] = [pc |-> "caught", thread |-> threadId, response |-> Null]]
  /\ UNCHANGED << askingTask, threadId, threadCache, threadFetch, threadResponseResult,
                  responseFetches, threadRecommendationQuestionsResult,
                  backend, backendRec >>

\* createThreadResponse resolves: onCompleted appends, then onSelect goes on
\* to generateThreadRecommendationQuestions
CreateThreadResponseCompleted(i) ==
  /\ sel[i].pc = "createThreadResponse"
  /\ LET nextResponse == [id |-> sel[i].response, status |-> "pending", detail |-> ""]
     IN IF CanUpdate(Cur)
        THEN /\ Commit(Effects(Cur, updateThreadQuery(Cur,
                         AppendResponse(thread(Cur).responses, nextResponse))))
             /\ sel' = [sel EXCEPT ![i].pc = "generate"]
        ELSE /\ Commit(Cur)
             /\ sel' = [sel EXCEPT ![i].pc = "caught"]
  /\ UNCHANGED << askingTask, backend, backendRec >>

\* generate resolves; onSelect calls fetchThreadResponse and awaits it
GenerateCompleted(i) ==
  /\ sel[i].pc = "generate"
  /\ backendRec' = [backendRec EXCEPT ![sel[i].thread] = "generating"]
  /\ Commit(Effects(Cur, fetchThreadResponse(Cur, sel[i].response)))
  /\ sel' = [sel EXCEPT ![i].pc = "fetchThreadResponse"]
  /\ UNCHANGED << askingTask, backend >>

\* generate is rejected: catch
GenerateFailed(i) ==
  /\ sel[i].pc = "generate"
  /\ sel' = [sel EXCEPT ![i].pc = "caught"]
  /\ UNCHANGED << askingTask, threadId, threadCache, threadFetch, threadResponseResult,
                  responseFetches, threadRecommendationQuestionsResult,
                  askPolling, backend, backendRec >>

\* the awaited fetchThreadResponse resolves; onSelect starts the
\* recommendation poller for the thread it was called in
SelectFetchRecommendation(i) ==
  /\ sel[i].pc = "fetchThreadResponse"
  /\ sel[i].response \notin responseFetches
  /\ Commit(Effects(Cur, fetchThreadRecommendationQuestions(Cur, sel[i].thread)))
  /\ sel' = [sel EXCEPT ![i].pc = "done"]
  /\ UNCHANGED << askingTask, backend, backendRec >>

\* the response poller's interval fires
PollTick ==
  /\ threadResponseResult.polling
  /\ threadResponseResult.variables \notin responseFetches
  /\ responseFetches' = responseFetches \cup {threadResponseResult.variables}
  /\ UNCHANGED << askingTask, threadId, threadCache, threadFetch, threadResponseResult,
                  threadRecommendationQuestionsResult,
                  askPolling, sel, backend, backendRec >>

Deliver(c, m) ==
  IF m.id = c.respQ.variables THEN [c EXCEPT !.respQ.data = m] ELSE c

\* mutant: the result is merged into the conversation the response belongs
\* to, active or not
OnThreadResponse_Owner(c, nextResponse) ==
  LET t == Owner(nextResponse.id)
  IN IF c.cache[t].loaded
     THEN [c EXCEPT !.cache[t].responses = MergeResponse(@, nextResponse)]
     ELSE c

\* mutant: only a result with a terminal status is merged
OnThreadResponse_TerminalOnly(c, nextResponse) ==
  IF CanUpdate(c) /\ getIsFinished(nextResponse.status)
  THEN updateThreadQuery(c, MergeResponse(thread(c).responses, nextResponse))
  ELSE c

\* fetchThreadResponse.onCompleted
OnThreadResponse(c, nextResponse) ==
  IF CanUpdate(c)
  THEN updateThreadQuery(c, MergeResponse(thread(c).responses, nextResponse))
  ELSE c

\* a THREAD_RESPONSE result arrives.  The new `data` and the cache write of
\* onCompleted reach React in one render or in two.
ThreadResponseCompleted(id, batched) ==
  /\ id \in responseFetches
  /\ \E m \in {BackendResponse(id)} :
     \E c0 \in {[Cur EXCEPT !.respFetches = @ \ {id}]} :
       IF batched
       THEN Commit(Effects(Cur, OnThreadResponse(Deliver(c0, m), m)))
       ELSE \E first \in {Effects(Cur, Deliver(c0, m))} :
              Commit(Effects(first, OnThreadResponse(first, m)))
  /\ UNCHANGED << askingTask, sel, backend, backendRec >>

\* the recommendation poller fetches (the first fetch of an execute, or the
\* interval) and the result arrives
RecommendationCompleted ==
  /\ \/ threadRecommendationQuestionsResult.polling
     \/ /\ threadRecommendationQuestionsResult.variables # Null
        /\ threadRecommendationQuestionsResult.data = "none"
  /\ LET c == [Cur EXCEPT !.recQ.data =
                             backendRec[threadRecommendationQuestionsResult.variables]]
     IN Commit(Effects(Cur, c))
  /\ UNCHANGED << askingTask, sel, backend, backendRec >>

\* the backend works on a response
BackendAdvance(t, i, s) ==
  /\ i \in 1..Len(backend[t])
  /\ s \in Successors(backend[t][i].status)
  /\ backend' = [backend EXCEPT ![t][i] =
                   [id |-> @.id, status |-> s, detail |-> Detail(s)]]
  /\ UNCHANGED << askingTask, threadId, threadCache, threadFetch, threadResponseResult,
                  responseFetches, threadRecommendationQuestionsResult,
                  askPolling, sel, backendRec >>

\* the backend finishes a recommendation task
BackendRecAdvance(t, s) ==
  /\ backendRec[t] = "generating"
  /\ backendRec' = [backendRec EXCEPT ![t] = s]
  /\ UNCHANGED << askingTask, threadId, threadCache, threadFetch, threadResponseResult,
                  responseFetches, threadRecommendationQuestionsResult,
                  askPolling, sel, backend >>

\* the page, the user and the backend's work on responses
HomeThread ==
  \/ \E t \in Threads \cup {Null} : SwitchThread(t)
  \/ ThreadQueryCompleted
  \/ \E i \in 1..MaxSelect : SelectStart(i)
  \/ \E i \in 1..MaxSelect : SelectFailed(i)
  \/ \E i \in 1..MaxSelect : CreateThreadResponseCompleted(i)
  \/ \E i \in 1..MaxSelect : GenerateCompleted(i)
  \/ \E i \in 1..MaxSelect : GenerateFailed(i)
  \/ \E i \in 1..MaxSelect : SelectFetchRecommendation(i)
  \/ PollTick
  \/ \E id \in responseFetches, b \in BOOLEAN : ThreadResponseCompleted(id, b)
  \/ \E t \in Threads, i \in 1..(MaxSelect + 1), s \in {"generating", "finished", "failed"} :
        BackendAdvance(t, i, s)

\* the asking task and the recommendation task
Tasks ==
  \/ AskSubmit
  \/ AskingTaskCompleted
  \/ AskCancel
  \/ \E s \in {"finished", "failed"} : BackendAskAdvance(s)
  \/ RecommendationCompleted
  \/ \E t \in Threads, s \in {"finished", "failed"} : BackendRecAdvance(t, s)

Next == HomeThread \/ Tasks

Spec == Init /\ [][Next]_vars

\* The steps of Tasks read and write only askPolling, the recommendation
\* poller, its fetches and backendRec, and no step of HomeThread reads those:
\* what HomeThread does to the responses is the same with and without them.
SpecResponses == Init /\ [][HomeThread]_vars

\* The page with the recommendation task.  The backend takes a response
\* from `pending` to a terminal status in one step here: the recommendation
\* poller never reads a response's status, and the intermediate status of a
\* response is the matter of SpecResponses.
Recommendation ==
  \/ \E t \in Threads \cup {Null} : SwitchThread(t)
  \/ ThreadQueryCompleted
  \/ \E i \in 1..MaxSelect : SelectStart(i)
  \/ \E i \in 1..MaxSelect : SelectFailed(i)
  \/ \E i \in 1..MaxSelect : CreateThreadResponseCompleted(i)
  \/ \E i \in 1..MaxSelect : GenerateCompleted(i)
  \/ \E i \in 1..MaxSelect : GenerateFailed(i)
  \/ \E i \in 1..MaxSelect : SelectFetchRecommendation(i)
  \/ PollTick
  \/ \E id \in responseFetches, b \in BOOLEAN : ThreadResponseCompleted(id, b)
  \/ \E t \in Threads, i \in 1..(MaxSelect + 1), s \in {"finished", "failed"} :
        BackendAdvance(t, i, s)
  \/ RecommendationCompleted
  \/ \E t \in Threads, s \in {"finished", "failed"} : BackendRecAdvance(t, s)

SpecRecommendation == Init /\ [][Recommendation]_vars

\* The page with the Prompt's asking task: conversations are opened and
\* left while questions are asked; onSelect appears with its first line
\* (askPrompt.onStopPolling) and a rejected createThreadResponse.
Asking ==
  \/ \E t \in Threads \cup {Null} : SwitchThread(t)
  \/ ThreadQueryCompleted
  \/ \E i \in 1..MaxSelect : SelectFailed(i)
  \/ PollTick
  \/ \E id \in responseFetches, b \in BOOLEAN : ThreadResponseCompleted(id, b)
  \/ \E t \in Threads, i \in 1..(MaxSelect + 1), s \in {"generating", "finished", "failed"} :
        BackendAdvance(t, i, s)
  \/ AskSubmit
  \/ AskingTaskCompleted
  \/ AskCancel
  \/ \E s \in {"finished", "failed"} : BackendAskAdvance(s)

SpecAsking == Init /\ [][Asking]_vars

\* One visit: a conversation is opened and stays the active one.
Convergence ==
  \/ \E t \in Threads : threadId = Null /\ SwitchThread(t)
  \/ ThreadQueryCompleted
  \/ \E i \in 1..MaxSelect : SelectStart(i)
  \/ \E i \in 1..MaxSelect : CreateThreadResponseCompleted(i)
  \/ \E i \in 1..MaxSelect : GenerateCompleted(i)
  \/ \E i \in 1..MaxSelect : GenerateFailed(i)
  \/ \E i \in 1..MaxSelect : SelectFetchRecommendation(i)
  \/ PollTick
  \/ \E id \in responseFetches, b \in BOOLEAN : ThreadResponseCompleted(id, b)
  \/ \E t \in Threads, i \in 1..(MaxSelect + 1), s \in {"generating", "finished", "failed"} :
        BackendAdvance(t, i, s)
  \/ RecommendationCompleted
  \/ \E t \in Threads, s \in {"finished", "failed"} : BackendRecAdvance(t, s)

\* Every request is answered, the interval of a running poller fires, an
\* onSelect that can go on goes on, and the backend brings every response to
\* a terminal status.  Whether the user opens a conversation or accepts a
\* candidate is not forced.
Fairness ==
  /\ WF_vars(ThreadQueryCompleted)
  /\ WF_vars(PollTick)
  /\ WF_vars(\E id \in responseFetches, b \in BOOLEAN : ThreadResponseCompleted(id, b))
  /\ WF_vars(\E i \in 1..MaxSelect : CreateThreadResponseCompleted(i))
  /\ WF_vars(\E i \in 1..MaxSelect : GenerateCompleted(i) \/ GenerateFailed(i))
  /\ WF_vars(\E i \in 1..MaxSelect : SelectFetchRecommendation(i))
  /\ WF_vars(\E t \in Threads, i \in 1..(MaxSelect + 1), s \in {"finished", "failed"} :
               BackendAdvance(t, i, s))

SpecConvergence == Init /\ [][Convergence]_vars /\ Fairness

\* One visit of a page whose conversations have recommendation tasks of
\* earlier visits
SpecRetry == InitAnyRecommendation /\ [][Convergence]_vars

----------------------------------------------------------------------------
\* Vocabulary of the properties

Responses(t) == threadCache[t].responses

Ids(responses) == [k \in 1..Len(responses) |-> responses[k].id]

AnyResponseCompleted(id) == \E b \in BOOLEAN : ThreadResponseCompleted(id, b)

\* the stored responses of conversation t show response id with a terminal status
ShownTerminal(t, id) ==
  /\ t \in Threads
  /\ \E k \in 1..Len(Responses(t)) :
       Responses(t)[k].id = id /\ getIsFinished(Responses(t)[k].status)

----------------------------------------------------------------------------
\* C1: no update that belongs to conversation A is applied to conversation
\* B's state: a createThreadResponse completion or a threadResponse result
\* of a response of A that arrives while A is not the active conversation
\* leaves the responses of every other conversation as they were.
C1_StaleUpdateDiscarded ==
  [][ /\ \A i \in 1..MaxSelect :
           (CreateThreadResponseCompleted(i) /\ sel[i].thread # threadId)
             => \A t \in Threads \ {sel[i].thread} : Responses(t)' = Responses(t)
      /\ \A id \in responseFetches :
           (AnyResponseCompleted(id) /\ Owner(id) # threadId)
             => \A t \in Threads \ {Owner(id)} : Responses(t)' = Responses(t)
    ]_vars

\* C2: a threadResponse result of a response of conversation A that arrives
\* while A is not the active conversation leaves A's stored responses as
\* they were at the switch.
C2_LateResultKeepsStoredState ==
  [][ \A id \in responseFetches :
        (AnyResponseCompleted(id) /\ Owner(id) # threadId)
          => threadCache'[Owner(id)] = threadCache[Owner(id)]
    ]_vars

\* the poll of response 1 (conversation 1) was in flight at the switch to
\* conversation 2 and has arrived since with a terminal status, which the
\* stored conversation 1 does not show
C2_Witness ==
  /\ threadId = 2
  /\ threadResponseResult.data.id = 1
  /\ getIsFinished(threadResponseResult.data.status)
  /\ threadCache[1].loaded
  /\ Len(Responses(1)) = 1
  /\ Responses(1)[1].id = 1
  /\ ~getIsFinished(Responses(1)[1].status)

\* C3: a merge replaces the entry whose id is the fetched response's id by
\* the fetched value, at the same position, and leaves every other entry
\* as it was.
C3_MergeReplacesMatchedEntryOnly ==
  [][ \A id \in responseFetches :
        (AnyResponseCompleted(id) /\ CanUpdate(Cur))
          => LET old == Responses(threadId)
                 new == Responses(threadId)'
             IN /\ Len(new) = Len(old)
                /\ \A k \in 1..Len(old) :
                     new[k] = IF old[k].id = id THEN BackendResponse(id) ELSE old[k]
    ]_vars

\* conversation 1 holds two entries; the second was merged to `finished`
\* with its detail while the first, which the backend has finished too,
\* still shows what it showed before
C3_Witness ==
  /\ threadId = 1
  /\ Len(Responses(1)) = 2
  /\ Responses(1)[2] = [id |-> 3, status |-> "finished", detail |-> "SELECT 1"]
  /\ threadResponseResult.data = Responses(1)[2]
  /\ Responses(1)[1].id = 1
  /\ Responses(1)[1].status = "pending"
  /\ BackendResponse(1).status = "finished"

\* C4: the length of a conversation's responses equals the number of
\* successful createResponse calls for it; stated for what the page has
\* stored: a conversation never holds more entries than the backend created
\* for it.
C4_LengthMatchesCreates ==
  \A t \in Threads : Len(Responses(t)) <= Len(backend[t])

\* C5: an append puts the returned response at the end of the sequence, and
\* neither an append nor a merge changes the order of the ids already there.
C5_AppendAtEndOrderKept ==
  [][ /\ \A i \in 1..MaxSelect :
           (CreateThreadResponseCompleted(i) /\ CanUpdate(Cur))
             => /\ Len(Responses(threadId)') = Len(Responses(threadId)) + 1
                /\ Responses(threadId)'[Len(Responses(threadId)) + 1].id = sel[i].response
                /\ SubSeq(Responses(threadId)', 1, Len(Responses(threadId)))
                     = Responses(threadId)
      /\ \A id \in responseFetches :
           AnyResponseCompleted(id)
             => \A t \in Threads : Ids(Responses(t)') = Ids(Responses(t))
    ]_vars

\* the response created by onSelect is the last entry of conversation 1,
\* after the entry that was there, and has been merged since
C5_Witness ==
  /\ threadId = 1
  /\ Ids(Responses(1)) = << 1, 3 >>
  /\ Responses(1)[2].status = "generating"
  /\ sel[1].pc = "done"

\* C6: no two entries of a conversation's responses share an id.
C6_UniqueIds ==
  \A t \in Threads : \A j, k \in 1..Len(Responses(t)) :
     Responses(t)[j].id = Responses(t)[k].id => j = k

\* C7: after a change of the active conversation no poller of the previous
\* conversation runs: a response poller that is running polls a response of
\* the active conversation, and a recommendation poller that is running
\* polls the active conversation.
C7_PollersOfActiveConversationOnly ==
  /\ threadResponseResult.polling => Owner(threadResponseResult.variables) = threadId
  /\ threadRecommendationQuestionsResult.polling
       => threadRecommendationQuestionsResult.variables = threadId

\* C8: one response is polled at a time, and while the active conversation
\* is shown the polled response is the earliest entry of its responses
\* whose status is non-terminal.
C8_PolledIsEarliestUnfinished ==
  (/\ threadResponseResult.polling
   /\ Owner(threadResponseResult.variables) = threadId
   /\ CanUpdate(Cur))
    => LET rs == thread(Cur).responses
           u == UnfinishedIndex(rs)
       IN u # 0 /\ rs[u].id = threadResponseResult.variables

\* C9: stop is idempotent.  The interval fires only while the poller runs.
\* On a change of the active conversation the pollers run afterwards only if
\* the same step started them again; otherwise they are stopped, no fetch is
\* issued, and a poller that was stopped already or was never started is
\* left exactly as it was.  A stop that follows a terminal result leaves the
\* poller stopped.
C9_StopIdempotent ==
  [][ /\ PollTick => threadResponseResult.polling
      /\ \A t \in Threads \cup {Null} :
           SwitchThread(t)
             => LET rs == thread([Cur EXCEPT !.threadId = t]).responses
                    u == UnfinishedIndex(rs)
                    q == threadResponseResult
                    r == threadRecommendationQuestionsResult
                IN /\ ~askPolling'
                   /\ IF u # 0
                      THEN /\ q'.polling
                           /\ q'.variables = rs[u].id
                      ELSE /\ ~q'.polling
                           /\ ~q.polling => q' = q
                           /\ responseFetches' = responseFetches
                   /\ IF t # Null
                      THEN r'.polling /\ r'.variables = t
                      ELSE ~r'.polling /\ (~r.polling => r' = r)
      /\ (isFinished(Cur)' /\ ~isFinished(Cur)) => ~threadResponseResult'.polling
    ]_vars

\* the response poller was stopped when response 1 showed a terminal status
\* and stopped again when the conversation was left; it has issued no fetch
\* since
C9_Witness ==
  /\ threadId = Null
  /\ threadResponseResult.variables = 1
  /\ getIsFinished(threadResponseResult.data.status)
  /\ ~threadResponseResult.polling
  /\ ~threadRecommendationQuestionsResult.polling
  /\ responseFetches = {}

\* C10: once a fetch for the polled response has returned a terminal status
\* the response poller is stopped: it never runs while the data it shows for
\* the polled response is terminal.
C10_StoppedOnceTerminal ==
  (/\ threadResponseResult.polling
   /\ threadResponseResult.data.id = threadResponseResult.variables)
    => ~getIsFinished(threadResponseResult.data.status)

\* C11: a change of the active conversation never invokes the generate
\* trigger; to a conversation it leaves the recommendation poller polling
\* that conversation, to `no conversation` it leaves it stopped.  A
\* recommendation task starts generating only in the step in which the
\* generate call of onSelect resolves.
C11_FetchWithoutGenerate ==
  [][ /\ \A t \in Threads \cup {Null} :
           SwitchThread(t)
             => /\ backendRec' = backendRec
                /\ IF t # Null
                   THEN /\ threadRecommendationQuestionsResult'.polling
                        /\ threadRecommendationQuestionsResult'.variables = t
                   ELSE ~threadRecommendationQuestionsResult'.polling
      /\ (\E t \in Threads : /\ backendRec'[t] = "generating"
                             /\ backendRec[t] # "generating")
           => \E i \in 1..MaxSelect : GenerateCompleted(i)
    ]_vars

\* conversation 1 was opened and its recommendation status has been polled:
\* nothing was ever generated for it
C11_Witness ==
  /\ threadId = 1
  /\ threadRecommendationQuestionsResult =
       [variables |-> 1, polling |-> TRUE, data |-> "not_started"]
  /\ backendRec[1] = "not_started"

\* C12: the recommendation poller is stopped as soon as a fetched status is
\* `finished` or `failed`: it never runs while the status it shows is
\* terminal (a fetch that returns the status already shown changes nothing).
C12_RecommendationStoppedWhenTerminal ==
  threadRecommendationQuestionsResult.polling
    => ~isRecommendedFinished(recommendedQuestions(Cur))

\* C13: the two pollers never interfere.  A step of the recommendation
\* poller (its result, its stop on a terminal status, its start by onSelect)
\* leaves the response poller and its fetches as they were, and a step of
\* the response poller (its interval, its result, its stop on a terminal
\* status, its start by the thread effect or by onSelect) leaves the
\* recommendation poller as it was.
C13_PollersIndependent ==
  [][ /\ (RecommendationCompleted \/ \E i \in 1..MaxSelect : SelectFetchRecommendation(i))
           => /\ threadResponseResult' = threadResponseResult
              /\ responseFetches' = responseFetches
      /\ (\/ PollTick
          \/ \E id \in responseFetches : AnyResponseCompleted(id)
          \/ ThreadQueryCompleted
          \/ \E i \in 1..MaxSelect : CreateThreadResponseCompleted(i)
          \/ \E i \in 1..MaxSelect : GenerateCompleted(i))
           => threadRecommendationQuestionsResult' = threadRecommendationQuestionsResult
    ]_vars

\* the response poller was stopped by the terminal status of response 1
\* while the recommendation poller of conversation 1 goes on polling a task
\* that is generating
C13_Witness ==
  /\ threadId = 1
  /\ threadResponseResult.variables = 1
  /\ ~threadResponseResult.polling
  /\ getIsFinished(threadResponseResult.data.status)
  /\ threadRecommendationQuestionsResult =
       [variables |-> 1, polling |-> TRUE, data |-> "generating"]

\* C14: every result of a poll fetch of a response of the conversation shown,
\* whatever its status, is merged: afterwards the entry with the fetched id
\* has the fetched value.
C14_EveryFetchMerged ==
  [][ \A id \in responseFetches :
        (AnyResponseCompleted(id) /\ Owner(id) = threadId /\ CanUpdate(Cur))
          => \A k \in 1..Len(Responses(threadId)') :
               Responses(threadId)'[k].id = id
                 => Responses(threadId)'[k] = BackendResponse(id)
    ]_vars

\* the entry of response 1 shows the intermediate status `generating` that
\* the poller fetched
C14_Witness ==
  /\ threadId = 1
  /\ threadFetch = Null
  /\ threadResponseResult.polling
  /\ threadResponseResult.data = [id |-> 1, status |-> "generating", detail |-> ""]
  /\ Responses(1)[1] = threadResponseResult.data

\* C15: an acceptance whose createThreadResponse call fails leaves the
\* responses of every conversation unchanged, creates nothing, does not fire
\* the generate trigger and starts neither poller, in the step of the failure
\* and ever after: the invocation takes no further step.
C15_FailedCreateChangesNothing ==
  [][ \A i \in 1..MaxSelect :
        /\ SelectFailed(i)
             => /\ threadCache' = threadCache
                /\ backend' = backend
                /\ backendRec' = backendRec
                /\ threadResponseResult' = threadResponseResult
                /\ responseFetches' = responseFetches
                /\ threadRecommendationQuestionsResult'
                     = threadRecommendationQuestionsResult
        /\ (sel[i].pc = "caught" /\ sel[i].response = Null) => sel'[i] = sel[i]
    ]_vars

\* an acceptance failed in conversation 1: one entry as before, still polled,
\* and no recommendation was ever asked for
C15_Witness ==
  /\ threadId = 1
  /\ sel[1] = [pc |-> "caught", thread |-> 1, response |-> Null]
  /\ Ids(Responses(1)) = << 1 >>
  /\ threadResponseResult.polling
  /\ threadResponseResult.variables = 1
  /\ backendRec[1] = "not_started"
  /\ Len(backend[1]) = 1

\* C16: a failure of one task does not abort its sibling.  Stated for the
\* response: when the generate trigger fails after the response was created,
\* the response is still polled until the conversation shows it with a
\* terminal status.
C16_ResponseConvergesAfterGenerateFailed ==
  \A i \in 1..MaxSelect :
     (sel[i].pc = "caught" /\ sel[i].response # Null)
       ~> ShownTerminal(sel[i].thread, sel[i].response)

\* C17: a change of the active conversation writes no response: the stored
\* responses of every conversation, the one that is left included, are what
\* they were, so no entry is forced to a terminal status.
C17_GuardWritesNoStatus ==
  [][ \A t \in Threads \cup {Null} : SwitchThread(t) => threadCache' = threadCache ]_vars

\* conversation 1 was left for conversation 2 while its entry was pending:
\* the poller is stopped and the entry is still pending
C17_Witness ==
  /\ threadId = 2
  /\ threadResponseResult.variables = 1
  /\ ~threadResponseResult.polling
  /\ threadCache[1].loaded
  /\ Responses(1) = << [id |-> 1, status |-> "pending", detail |-> ""] >>

\* C18: a change of the active conversation stops the asking-task poller and
\* leaves the remote asking task as it is; the remote task becomes `stopped`
\* only by the Prompt's cancel.
C18_SwitchDoesNotCancel ==
  [][ /\ \A t \in Threads \cup {Null} :
           SwitchThread(t) => /\ ~askPolling'
                              /\ askingTask' = askingTask
      /\ (askingTask' = "stopped" /\ askingTask # "stopped") => AskCancel
    ]_vars

\* a question was asked and the conversation changed before the task ended:
\* the task is still running at the backend and is no longer polled
C18_Witness ==
  /\ askingTask = "running"
  /\ ~askPolling
  /\ threadId # Null
  /\ \A i \in 1..MaxSelect : sel[i].pc = "idle"

\* C19: whatever recommendation status was observed last, an accepted
\* candidate fires the generate trigger (the task of its conversation is
\* generating when the call resolves) and onSelect then leaves the
\* recommendation poller running on that conversation.
C19_RetryNotBlocked ==
  [][ \A i \in 1..MaxSelect :
        /\ GenerateCompleted(i) => backendRec'[sel[i].thread] = "generating"
        /\ SelectFetchRecommendation(i)
             => /\ threadRecommendationQuestionsResult'.polling
                /\ threadRecommendationQuestionsResult'.variables = sel[i].thread
    ]_vars

\* the recommendation task of conversation 1 had failed and the poller had
\* stopped on it; a candidate was accepted: the task is generating again and
\* the poller runs, still showing the failure it observed before
C19_Witness ==
  /\ threadId = 1
  /\ sel[1] = [pc |-> "done", thread |-> 1, response |-> 3]
  /\ backendRec[1] = "generating"
  /\ threadRecommendationQuestionsResult =
       [variables |-> 1, polling |-> TRUE, data |-> "failed"]

\* C20: while the active conversation does not change, with every request
\* answered, the interval firing and the backend finishing every response,
\* every entry of the responses eventually is terminal and stays so.
C20_EveryEntryConverges ==
  <>[](\A t \in Threads : \A k \in 1..Len(Responses(t)) :
          getIsFinished(Responses(t)[k].status))

====
